---- MODULE Spec2Model ----
(***************************************************************************)
(* Model of components/style/parallel.rs: the parallel top-down DOM        *)
(* traversal (traverse_dom, traverse_nodes, top_down_dom) running on a     *)
(* work-stealing pool inside one scope.                                    *)
(***************************************************************************)
EXTENDS Integers, Sequences, FiniteSets, TLC

\* ------------------------------------------------------------------ constants
WORK_UNIT_MAX == 16

RECURSION_DEPTH_LIMIT == 150

\* ------------------------------------------------------------------ bounds
\* Largest number of worker threads of the pool.
NumWorkers == 2

\* Length of the linear chain (longer than RECURSION_DEPTH_LIMIT + 1).
ChainLen == 152

\* Length of the deep linear chain (longer than twice RECURSION_DEPTH_LIMIT).
DeepLen == 302

\* Number of leaf children of the wide root (more than WORK_UNIT_MAX).
StarKids == 17

\* Number of children of each of the two cousins' parents.
CousinKids == 10

\* ------------------------------------------------------------------ helpers
Range(s) == {s[i] : i \in 1..Len(s)}

Min(a, b) == IF a < b THEN a ELSE b

RECURSIVE SumTo(_, _)
SumTo(ks, i) == IF i = 0 THEN 0 ELSE ks[i] + SumTo(ks, i - 1)

\* The sequence <<a, a+1, ..., a+k-1>>.
Run(a, k) == [i \in 1..k |-> a + i - 1]

\* ------------------------------------------------------------------ trees
\* A tree is what the preorder callback enumerates: kids[n] is the ordered
\* list of children process_preorder reports for n; node 1 is the root.
Chain(len, d0) ==
    [n      |-> len,
     kids   |-> [i \in 1..len |-> IF i < len THEN <<i + 1>> ELSE <<>>],
     parent |-> [i \in 1..len |-> i - 1],
     depth  |-> [i \in 1..len |-> d0 + i - 1]]

\* Root with Len(ks) children; the i-th child has ks[i] leaf children.
Fan(ks, d0) ==
    LET m == Len(ks)
        total == 1 + m + SumTo(ks, m)
        first(i) == m + 2 + SumTo(ks, i - 1)
        owner(x) == CHOOSE i \in 1..m : first(i) <= x /\ x < first(i) + ks[i]
    IN [n      |-> total,
        kids   |-> [x \in 1..total |->
                      IF x = 1 THEN Run(2, m)
                      ELSE IF x <= m + 1 THEN Run(first(x - 1), ks[x - 1])
                      ELSE <<>>],
        parent |-> [x \in 1..total |->
                      IF x = 1 THEN 0
                      ELSE IF x <= m + 1 THEN 1
                      ELSE owner(x) + 1],
        depth  |-> [x \in 1..total |->
                      IF x = 1 THEN d0
                      ELSE IF x <= m + 1 THEN d0 + 1
                      ELSE d0 + 2]]

SingleTree == Chain(1, 2)

ChainTree == Chain(ChainLen, 0)

DeepTree == Chain(DeepLen, 0)

StarTree == Fan([i \in 1..StarKids |-> 0], 0)

FlushTree == Fan(<<WORK_UNIT_MAX, 1>>, 0)

CousinTree == Fan(<<CousinKids, CousinKids>>, 1)

WideFlushTree == Fan(<<StarKids, 0>>, 0)

\* The scenario of a root with 20 leaf children.
ScenarioTree == Fan([i \in 1..20 |-> 0], 0)

Trees == {SingleTree, ChainTree, StarTree, FlushTree, CousinTree, WideFlushTree,
          ScenarioTree}

\* ------------------------------------------------------------------ state
VARIABLES
    tree,       \* the DOM (fixed during one traversal)
    pool,       \* the number of worker threads of the rayon pool
    driver,     \* position of the thread that called traverse_dom
    stack,      \* per worker: nested top_down_dom activations, innermost last
    queue,      \* per worker: local deque of spawned, not yet started tasks
    pending,    \* the scope's count of jobs (body + spawned) not yet complete
    slots,      \* per slot of the ScopedTLS: has the context been created
    preStart,   \* per node: number of process_preorder calls begun
    preDone,    \* per node: number of process_preorder calls completed
    postCalls,  \* per node: number of handle_postorder_traversal calls
    postArg,    \* per node: children_to_process passed to the last such call
    unit,       \* per node: the work unit it was last placed in (<<>>: none)
    via,        \* per node: how that work unit was dispatched
    asserts     \* the debug assertions that have failed

vars == <<tree, pool, driver, stack, queue, pending, slots, preStart, preDone,
          postCalls, postArg, unit, via, asserts>>

Nodes == 1..tree.n

Workers == 1..pool

\* ------------------------------------------------------------------ top_down_dom activation
\* The locals of one activation of top_down_dom.
Frame(nodes, recursion_depth, dom_depth, tail) ==
    [nodes                  |-> nodes,
     idx                    |-> 1,
     recursion_depth        |-> recursion_depth,
     current_dom_depth      |-> dom_depth,
     discovered_child_nodes |-> <<>>,
     children_to_process    |-> 0,
     tlc                    |-> FALSE,
     tail                   |-> tail,
     pc                     |-> "enter"]

\* A spawned closure: the work unit and the per-level data it captured.
Task(nodes, dom_depth) == [nodes |-> nodes, current_dom_depth |-> dom_depth]

\* ------------------------------------------------------------------ traverse_nodes
\* Faulty variant: chunks_exact, which drops a short last chunk.
RECURSIVE ChunksExact(_)
ChunksExact(nodes) ==
    IF Len(nodes) < WORK_UNIT_MAX THEN <<>>
    ELSE <<SubSeq(nodes, 1, WORK_UNIT_MAX)>>
         \o ChunksExact(SubSeq(nodes, WORK_UNIT_MAX + 1, Len(nodes)))

\* nodes.chunks(WORK_UNIT_MAX)
RECURSIVE Chunks(_)
Chunks(nodes) ==
    IF Len(nodes) = 0 THEN <<>>
    ELSE <<SubSeq(nodes, 1, Min(WORK_UNIT_MAX, Len(nodes)))>>
         \o Chunks(SubSeq(nodes, Min(WORK_UNIT_MAX, Len(nodes)) + 1, Len(nodes)))

\* pool.current_thread_has_pending_tasks()
HasPendingTasks(w) == queue[w] # <<>>

\* Faulty variant: the recursion-depth test is missing.
MayDispatchTailNoLimit(w, mode, recursion_depth) ==
    /\ mode = "TailCall"
    /\ ~HasPendingTasks(w)

\* Faulty variant: the limit is compared with the depth of the callee.
MayDispatchTailOffByOne(w, mode, recursion_depth) ==
    /\ mode = "TailCall"
    /\ recursion_depth + 1 # RECURSION_DEPTH_LIMIT
    /\ ~HasPendingTasks(w)

\* Faulty variant: the dispatch mode is not consulted.
MayDispatchTailAnyMode(w, mode, recursion_depth) ==
    /\ recursion_depth # RECURSION_DEPTH_LIMIT
    /\ ~HasPendingTasks(w)

\* Faulty variant: the negation of the pending-tasks test is missing.
MayDispatchTailInverted(w, mode, recursion_depth) ==
    /\ mode = "TailCall"
    /\ recursion_depth # RECURSION_DEPTH_LIMIT
    /\ HasPendingTasks(w)

MayDispatchTail(w, mode, recursion_depth) ==
    /\ mode = "TailCall"
    /\ recursion_depth # RECURSION_DEPTH_LIMIT
    /\ ~HasPendingTasks(w)

\* Faulty variant: an oversized list is spawned as one task, without chunking.
TraverseNodesNoSplit(w, nodes, mode, recursion_depth, dom_depth) ==
    IF MayDispatchTail(w, mode, recursion_depth) /\ Len(nodes) <= WORK_UNIT_MAX
    THEN [frames |-> <<Frame(nodes, recursion_depth + 1, dom_depth, TRUE)>>,
          tasks  |-> <<>>,
          failed |-> {}]
    ELSE [frames |-> <<>>,
          tasks  |-> <<Task(nodes, dom_depth)>>,
          failed |-> {}]

\* Faulty variant: the first chunk of an oversized list is run on the current
\* stack when a tail dispatch is allowed.
TraverseNodesTailFirst(w, nodes, mode, recursion_depth, dom_depth) ==
    IF MayDispatchTail(w, mode, recursion_depth)
    THEN [frames |-> <<Frame(Chunks(nodes)[1], recursion_depth + 1, dom_depth, TRUE)>>,
          tasks  |-> [i \in 1..(Len(Chunks(nodes)) - 1) |->
                         Task(Chunks(nodes)[i + 1], dom_depth)],
          failed |-> {}]
    ELSE [frames |-> <<>>,
          tasks  |-> [i \in 1..Len(Chunks(nodes)) |->
                         Task(Chunks(nodes)[i], dom_depth)],
          failed |-> {}]

\* The outcome of one call of traverse_nodes on worker w: the activation it
\* runs on the current stack (frames, at most one), the tasks it spawns, in
\* order, and the assertions that fail.
TraverseNodes(w, nodes, mode, recursion_depth, dom_depth) ==
    LET failed == (IF nodes = <<>> THEN {"nonempty"} ELSE {})
                  \cup (IF recursion_depth > RECURSION_DEPTH_LIMIT
                        THEN {"depth_le_limit"} ELSE {})
    IN IF Len(nodes) <= WORK_UNIT_MAX
       THEN IF MayDispatchTail(w, mode, recursion_depth)
            THEN [frames |-> <<Frame(nodes, recursion_depth + 1, dom_depth, TRUE)>>,
                  tasks  |-> <<>>,
                  failed |-> failed]
            ELSE [frames |-> <<>>,
                  tasks  |-> <<Task(nodes, dom_depth)>>,
                  failed |-> failed]
       ELSE [frames |-> <<>>,
             tasks  |-> [i \in 1..Len(Chunks(nodes)) |->
                            Task(Chunks(nodes)[i], dom_depth)],
             failed |-> failed]

\* The work units a call of traverse_nodes made, with how each was dispatched.
UnitsOf(d) ==
    [i \in 1..Len(d.frames) |-> [nodes |-> d.frames[i].nodes, how |-> "tail"]]
    \o [i \in 1..Len(d.tasks) |-> [nodes |-> d.tasks[i].nodes, how |-> "spawn"]]

\* The effect of that call on the worker's stack (base: the caller's frames),
\* its local deque, the scope's job count and the record of work units.
Dispatch(w, base, d, delta) ==
    LET us == UnitsOf(d)
        hit(n) == {i \in 1..Len(us) : n \in Range(us[i].nodes)}
        last(n) == CHOOSE i \in hit(n) : \A j \in hit(n) : j <= i
    IN /\ stack' = [stack EXCEPT ![w] = base \o d.frames]
       /\ queue' = [queue EXCEPT ![w] = @ \o d.tasks]
       /\ pending' = pending + Len(d.tasks) + delta
       /\ unit' = [n \in Nodes |-> IF hit(n) # {} THEN us[last(n)].nodes ELSE unit[n]]
       /\ via' = [n \in Nodes |-> IF hit(n) # {} THEN us[last(n)].how ELSE via[n]]
       /\ asserts' = asserts \cup d.failed

\* ------------------------------------------------------------------ Init
\* The state when traverse_dom is entered with the DOM t and a pool of p
\* worker threads.
InitFor(t, p) ==
    /\ tree = t
    /\ pool = p
    /\ driver = "start"
    /\ stack = [w \in 1..p |-> <<>>]
    /\ queue = [w \in 1..p |-> <<>>]
    /\ pending = 0
    /\ slots = [w \in 1..p |-> FALSE]
    /\ preStart = [n \in 1..t.n |-> 0]
    /\ preDone = [n \in 1..t.n |-> 0]
    /\ postCalls = [n \in 1..t.n |-> 0]
    /\ postArg = [n \in 1..t.n |-> 0]
    /\ unit = [n \in 1..t.n |-> <<>>]
    /\ via = [n \in 1..t.n |-> "none"]
    /\ asserts = {}

Init == \E t \in Trees, p \in 1..NumWorkers : InitFor(t, p)

\* The shape of the state.
TypeOK ==
    /\ tree \in Trees \cup {DeepTree}
    /\ pool \in 1..NumWorkers
    /\ driver \in {"start", "waiting", "joined", "reading", "returned"}
    /\ DOMAIN stack = Workers /\ DOMAIN queue = Workers /\ DOMAIN slots = Workers
    /\ \A w \in Workers :
          /\ \A i \in 1..Len(stack[w]) :
                /\ stack[w][i].pc \in {"enter", "loop", "pre", "inpre", "post",
                                       "endloop", "tail", "ret"}
                /\ stack[w][i].idx \in 1..(Len(stack[w][i].nodes) + 1)
                /\ stack[w][i].recursion_depth \in Nat
          /\ slots[w] \in BOOLEAN
    /\ pending \in Nat
    /\ \A n \in Nodes :
          /\ preStart[n] \in Nat /\ preDone[n] \in Nat
          /\ postCalls[n] \in Nat /\ postArg[n] \in Nat
          /\ via[n] \in {"none", "tail", "spawn"}
    /\ asserts \subseteq {"nonempty", "depth_le_limit", "len_le_max"}

\* ------------------------------------------------------------------ traverse_dom
\* The slot of the ScopedTLS that worker w addresses (its index in the pool).
SlotOf(w) == w

\* pool.install + rayon::scope: the scope body runs on a worker of the pool and
\* seeds the traversal with the root. The body is one job of the scope; it is
\* complete when the activations it nests have returned.
Install(w) ==
    /\ driver = "start"
    /\ LET d == TraverseNodes(w, <<1>>, "TailCall", 0, tree.depth[1])
       IN Dispatch(w, <<>>, d, IF d.frames = <<>> THEN 0 ELSE 1)
    /\ driver' = "waiting"
    /\ UNCHANGED <<tree, pool, slots, preStart, preDone, postCalls, postArg>>

\* Faulty variant: the driver does not wait for the jobs of the scope.
ScopeJoinNoWait ==
    /\ driver = "waiting"
    /\ driver' = "joined"
    /\ UNCHANGED <<tree, pool, stack, queue, pending, slots, preStart, preDone,
                   postCalls, postArg, unit, via, asserts>>

\* The scope returns to traverse_dom once every job of the scope is complete.
ScopeJoin ==
    /\ driver = "waiting"
    /\ pending = 0
    /\ driver' = "joined"
    /\ UNCHANGED <<tree, pool, stack, queue, pending, slots, preStart, preDone,
                   postCalls, postArg, unit, via, asserts>>

\* Faulty variant: the statistics are read while the scope is still running.
DumpStatsEarly ==
    /\ driver \in {"waiting", "joined"}
    /\ \E dump_stats \in BOOLEAN :
          driver' = IF dump_stats THEN "reading" ELSE "returned"
    /\ UNCHANGED <<tree, pool, stack, queue, pending, slots, preStart, preDone,
                   postCalls, postArg, unit, via, asserts>>

\* if dump_stats { ... tls.unsafe_get() ... }: the driver reads every slot.
DumpStats ==
    /\ driver = "joined"
    /\ \E dump_stats \in BOOLEAN :
          driver' = IF dump_stats THEN "reading" ELSE "returned"
    /\ UNCHANGED <<tree, pool, stack, queue, pending, slots, preStart, preDone,
                   postCalls, postArg, unit, via, asserts>>

FinishStats ==
    /\ driver = "reading"
    /\ driver' = "returned"
    /\ UNCHANGED <<tree, pool, stack, queue, pending, slots, preStart, preDone,
                   postCalls, postArg, unit, via, asserts>>

\* ------------------------------------------------------------------ the pool
\* An idle worker pops a task of its own deque and runs the spawned closure:
\* top_down_dom(&work, 0, ...).
TakeLocal(w) ==
    /\ stack[w] = <<>>
    /\ queue[w] # <<>>
    /\ \E i \in {1, Len(queue[w])} :
          /\ stack' = [stack EXCEPT ![w] =
                 <<Frame(queue[w][i].nodes, 0, queue[w][i].current_dom_depth, FALSE)>>]
          /\ queue' = [queue EXCEPT ![w] =
                 SubSeq(@, 1, i - 1) \o SubSeq(@, i + 1, Len(@))]
    /\ UNCHANGED <<tree, pool, driver, pending, slots, preStart, preDone, postCalls,
                   postArg, unit, via, asserts>>

\* An idle worker with an empty deque steals the oldest task of another worker.
Steal(w, v) ==
    /\ w # v
    /\ stack[w] = <<>>
    /\ queue[w] = <<>>
    /\ queue[v] # <<>>
    /\ stack' = [stack EXCEPT ![w] =
           <<Frame(Head(queue[v]).nodes, 0, Head(queue[v]).current_dom_depth, FALSE)>>]
    /\ queue' = [queue EXCEPT ![v] = Tail(@)]
    /\ UNCHANGED <<tree, pool, driver, pending, slots, preStart, preDone, postCalls,
                   postArg, unit, via, asserts>>

\* ------------------------------------------------------------------ top_down_dom
Top(w) == stack[w][Len(stack[w])]

Below(w) == SubSeq(stack[w], 1, Len(stack[w]) - 1)

At(w, pcs) == stack[w] # <<>> /\ Top(w).pc \in pcs

SetTop(w, f) == [stack EXCEPT ![w] = Below(w) \o <<f>>]

\* Entry: the work-unit assertion, then tls.ensure borrows the worker's slot,
\* creating the context on first use.
Ensure(w) ==
    /\ At(w, {"enter"})
    /\ asserts' = asserts \cup
          (IF Len(Top(w).nodes) <= WORK_UNIT_MAX THEN {} ELSE {"len_le_max"})
    /\ slots' = [slots EXCEPT ![SlotOf(w)] = TRUE]
    /\ stack' = SetTop(w, [Top(w) EXCEPT
           !.tlc = TRUE,
           !.pc = IF Len(Top(w).nodes) = 0 THEN "endloop" ELSE "loop"])
    /\ UNCHANGED <<tree, pool, driver, queue, pending, preStart, preDone, postCalls,
                   postArg, unit, via>>

\* The condition for kicking off the discovered children in the middle of
\* the loop.
FlushNeeded(f) == Len(f.discovered_child_nodes) >= WORK_UNIT_MAX

\* Faulty variant: the per-level data is incremented in place instead of in
\* a copy.
FlushInPlace(w) ==
    /\ At(w, {"loop"})
    /\ FlushNeeded(Top(w))
    /\ LET f == Top(w)
           d == TraverseNodes(w, f.discovered_child_nodes, "NotTailCall",
                              f.recursion_depth, f.current_dom_depth + 1)
       IN Dispatch(w, Below(w) \o <<[f EXCEPT !.discovered_child_nodes = <<>>,
                                              !.current_dom_depth = @ + 1,
                                              !.pc = "pre"]>>, d, 0)
    /\ UNCHANGED <<tree, pool, driver, slots, preStart, preDone, postCalls, postArg>>

\* Faulty variant: the scratch buffer is not cleared after the dispatch.
FlushNoClear(w) ==
    /\ At(w, {"loop"})
    /\ FlushNeeded(Top(w))
    /\ LET f == Top(w)
           d == TraverseNodes(w, f.discovered_child_nodes, "NotTailCall",
                              f.recursion_depth, f.current_dom_depth + 1)
       IN Dispatch(w, Below(w) \o <<[f EXCEPT !.pc = "pre"]>>, d, 0)
    /\ UNCHANGED <<tree, pool, driver, slots, preStart, preDone, postCalls, postArg>>

\* Top of the loop body with a full scratch buffer: dispatch it NotTailCall
\* with a copy of the per-level data one level deeper, then clear it.
Flush(w) ==
    /\ At(w, {"loop"})
    /\ FlushNeeded(Top(w))
    /\ LET f == Top(w)
           d == TraverseNodes(w, f.discovered_child_nodes, "NotTailCall",
                              f.recursion_depth, f.current_dom_depth + 1)
       IN Dispatch(w, Below(w) \o <<[f EXCEPT !.discovered_child_nodes = <<>>,
                                              !.pc = "pre"]>>, d, 0)
    /\ UNCHANGED <<tree, pool, driver, slots, preStart, preDone, postCalls, postArg>>

\* Faulty variant: the children of a node are spawned as soon as its preorder
\* step is entered.
PreorderBeginSpawning(w) ==
    /\ \/ At(w, {"pre"})
       \/ At(w, {"loop"}) /\ ~FlushNeeded(Top(w))
    /\ LET f == Top(w)
           node == f.nodes[f.idx]
           caller == Below(w) \o <<[f EXCEPT !.pc = "inpre"]>>
       IN /\ preStart' = [preStart EXCEPT ![node] = @ + 1]
          /\ IF tree.kids[node] # <<>>
             THEN Dispatch(w, caller,
                           TraverseNodes(w, tree.kids[node], "NotTailCall",
                                         f.recursion_depth, f.current_dom_depth + 1), 0)
             ELSE /\ stack' = [stack EXCEPT ![w] = caller]
                  /\ UNCHANGED <<queue, pending, unit, via, asserts>>
    /\ UNCHANGED <<tree, pool, driver, slots, preDone, postCalls, postArg>>

\* traversal.process_preorder(..., node, ...) is entered.
PreorderBegin(w) ==
    /\ \/ At(w, {"pre"})
       \/ At(w, {"loop"}) /\ ~FlushNeeded(Top(w))
    /\ preStart' = [preStart EXCEPT ![Top(w).nodes[Top(w).idx]] = @ + 1]
    /\ stack' = SetTop(w, [Top(w) EXCEPT !.pc = "inpre"])
    /\ UNCHANGED <<tree, pool, driver, queue, pending, slots, preDone, postCalls,
                   postArg, unit, via, asserts>>

\* Faulty variant: the children of a node are spawned as soon as they are
\* discovered, before the node's postorder step.
PreorderEndEager(w) ==
    /\ At(w, {"inpre"})
    /\ LET f == Top(w)
           node == f.nodes[f.idx]
           caller == Below(w) \o <<[f EXCEPT
                        !.children_to_process = Len(tree.kids[node]),
                        !.pc = "post"]>>
       IN /\ preDone' = [preDone EXCEPT ![node] = @ + 1]
          /\ IF tree.kids[node] # <<>>
             THEN Dispatch(w, caller,
                           TraverseNodes(w, tree.kids[node], "NotTailCall",
                                         f.recursion_depth, f.current_dom_depth + 1), 0)
             ELSE /\ stack' = [stack EXCEPT ![w] = caller]
                  /\ UNCHANGED <<queue, pending, unit, via, asserts>>
    /\ UNCHANGED <<tree, pool, driver, slots, preStart, postCalls, postArg>>

\* process_preorder returns: the callback has run once per child, pushing it
\* on the scratch buffer and counting it.
PreorderEnd(w) ==
    /\ At(w, {"inpre"})
    /\ LET f == Top(w)
           node == f.nodes[f.idx]
       IN /\ preDone' = [preDone EXCEPT ![node] = @ + 1]
          /\ stack' = SetTop(w, [f EXCEPT
                 !.discovered_child_nodes = @ \o tree.kids[node],
                 !.children_to_process = Len(tree.kids[node]),
                 !.pc = "post"])
    /\ UNCHANGED <<tree, pool, driver, queue, pending, slots, preStart, postCalls,
                   postArg, unit, via, asserts>>

\* Faulty variant: the postorder step is passed the size of the scratch
\* buffer instead of the node's own count.
PostorderBufferLen(w) ==
    /\ At(w, {"post"})
    /\ LET f == Top(w)
           node == f.nodes[f.idx]
       IN /\ postCalls' = [postCalls EXCEPT ![node] = @ + 1]
          /\ postArg' = [postArg EXCEPT ![node] = Len(f.discovered_child_nodes)]
          /\ stack' = SetTop(w, [f EXCEPT
                 !.idx = @ + 1,
                 !.pc = IF f.idx < Len(f.nodes) THEN "loop" ELSE "endloop"])
    /\ UNCHANGED <<tree, pool, driver, queue, pending, slots, preStart, preDone,
                   unit, via, asserts>>

\* traversal.handle_postorder_traversal(..., node, children_to_process), then
\* the next iteration of the loop.
Postorder(w) ==
    /\ At(w, {"post"})
    /\ LET f == Top(w)
           node == f.nodes[f.idx]
       IN /\ postCalls' = [postCalls EXCEPT ![node] = @ + 1]
          /\ postArg' = [postArg EXCEPT ![node] = f.children_to_process]
          /\ stack' = SetTop(w, [f EXCEPT
                 !.idx = @ + 1,
                 !.pc = IF f.idx < Len(f.nodes) THEN "loop" ELSE "endloop"])
    /\ UNCHANGED <<tree, pool, driver, queue, pending, slots, preStart, preDone,
                   unit, via, asserts>>

\* Faulty variant: the borrow is not scoped and outlives the loop.
EndBlockKeepsBorrow(w) ==
    /\ At(w, {"endloop"})
    /\ stack' = SetTop(w, [Top(w) EXCEPT !.pc = "tail"])
    /\ UNCHANGED <<tree, pool, driver, queue, pending, slots, preStart, preDone,
                   postCalls, postArg, unit, via, asserts>>

\* End of the block that scopes the borrow of the thread-local context.
EndBlock(w) ==
    /\ At(w, {"endloop"})
    /\ stack' = SetTop(w, [Top(w) EXCEPT !.tlc = FALSE, !.pc = "tail"])
    /\ UNCHANGED <<tree, pool, driver, queue, pending, slots, preStart, preDone,
                   postCalls, postArg, unit, via, asserts>>

\* Faulty variant: the scratch buffer is dispatched without testing that it
\* is non-empty.
FinalDispatchUnguarded(w) ==
    /\ At(w, {"tail"})
    /\ LET f == Top(w)
           caller == Below(w) \o <<[f EXCEPT !.pc = "ret"]>>
       IN Dispatch(w, caller,
                   TraverseNodes(w, f.discovered_child_nodes, "TailCall",
                                 f.recursion_depth, f.current_dom_depth + 1), 0)
    /\ UNCHANGED <<tree, pool, driver, slots, preStart, preDone, postCalls, postArg>>

\* After the loop: whatever is still in the scratch buffer is dispatched
\* TailCall one level deeper.
FinalDispatch(w) ==
    /\ At(w, {"tail"})
    /\ LET f == Top(w)
           caller == Below(w) \o <<[f EXCEPT !.pc = "ret"]>>
       IN IF f.discovered_child_nodes # <<>>
          THEN Dispatch(w, caller,
                        TraverseNodes(w, f.discovered_child_nodes, "TailCall",
                                      f.recursion_depth, f.current_dom_depth + 1), 0)
          ELSE /\ stack' = [stack EXCEPT ![w] = caller]
               /\ UNCHANGED <<queue, pending, unit, via, asserts>>
    /\ UNCHANGED <<tree, pool, driver, slots, preStart, preDone, postCalls, postArg>>

\* Faulty variant: a spawned job never reports its completion to the scope.
ReturnLeak(w) ==
    /\ At(w, {"ret"})
    /\ stack' = [stack EXCEPT ![w] = Below(w)]
    /\ pending' = IF Len(stack[w]) = 1 /\ Top(w).tail THEN pending - 1 ELSE pending
    /\ UNCHANGED <<tree, pool, driver, queue, slots, preStart, preDone, postCalls,
                   postArg, unit, via, asserts>>

\* top_down_dom returns to its caller; the outermost activation of a job
\* returning completes that job.
Return(w) ==
    /\ At(w, {"ret"})
    /\ stack' = [stack EXCEPT ![w] = Below(w)]
    /\ pending' = IF Len(stack[w]) = 1 THEN pending - 1 ELSE pending
    /\ UNCHANGED <<tree, pool, driver, queue, slots, preStart, preDone, postCalls,
                   postArg, unit, via, asserts>>

\* ------------------------------------------------------------------ specification
Next ==
    \/ \E w \in Workers : Install(w)
    \/ ScopeJoin
    \/ DumpStats
    \/ FinishStats
    \/ \E w \in Workers : TakeLocal(w)
    \/ \E w, v \in Workers : Steal(w, v)
    \/ \E w \in Workers : Ensure(w)
    \/ \E w \in Workers : Flush(w)
    \/ \E w \in Workers : PreorderBegin(w)
    \/ \E w \in Workers : PreorderEnd(w)
    \/ \E w \in Workers : Postorder(w)
    \/ \E w \in Workers : EndBlock(w)
    \/ \E w \in Workers : FinalDispatch(w)
    \/ \E w \in Workers : Return(w)

Spec == Init /\ [][Next]_vars

\* ------------------------------------------------------------------ deep trees
\* Traversals of linear DOMs: the chain on every pool, the deep chain on a
\* pool of one worker, and a tree with a mid-loop flush.
InitDeep ==
    \/ \E t \in {ChainTree, FlushTree}, p \in 1..NumWorkers : InitFor(t, p)
    \/ InitFor(DeepTree, 1)

SpecDeep == InitDeep /\ [][Next]_vars

\* ------------------------------------------------------------------ fair scheduling
\* The steps of worker thread w, and of the thread that called traverse_dom.
WorkerStep(w) ==
    /\ w \in Workers
    /\ \/ Install(w)
       \/ TakeLocal(w)
       \/ \E v \in Workers : Steal(w, v)
       \/ Ensure(w)
       \/ Flush(w)
       \/ PreorderBegin(w)
       \/ PreorderEnd(w)
       \/ Postorder(w)
       \/ EndBlock(w)
       \/ FinalDispatch(w)
       \/ Return(w)

DriverStep == ScopeJoin \/ DumpStats \/ FinishStats

LiveTrees == {SingleTree, StarTree, FlushTree, CousinTree}

\* The chain is run with a pool of one worker, which has to take the task it
\* spawned at the recursion ceiling itself.
InitLive ==
    \/ \E t \in LiveTrees, p \in 1..NumWorkers : InitFor(t, p)
    \/ InitFor(ChainTree, 1)

\* Every thread that can take a step eventually takes one.
FairSpec ==
    /\ InitLive
    /\ [][Next]_vars
    /\ \A w \in 1..NumWorkers : WF_vars(WorkerStep(w))
    /\ WF_vars(DriverStep)

\* ------------------------------------------------------------------ properties
Joined == driver \in {"joined", "reading", "returned"}

\* Position of node n in the sequence u.
PosIn(u, n) == CHOOSE i \in 1..Len(u) : u[i] = n

\* C1. Parent before child: the preorder step of a node other than the root
\* begins only after the preorder step of its parent has completed.
C1_ParentBeforeChild ==
    \A n \in Nodes \ {1} : preStart[n] > 0 => preDone[tree.parent[n]] > 0

C1_Witness ==
    /\ tree = StarTree
    /\ pool > 1
    /\ preStart[tree.n] > 0
    /\ preStart[2] > 0

\* C2. Completeness: no node has its preorder step run twice, and when the
\* scope has joined every node of the tree has had it run exactly once.
C2_Completeness ==
    /\ \A n \in Nodes : preStart[n] <= 1
    /\ Joined => \A n \in Nodes : preStart[n] = 1 /\ preDone[n] = 1

C2_Witness ==
    /\ driver = "returned"
    /\ tree = ChainTree
    /\ \A n \in Nodes : preDone[n] = 1

\* C3. Join before return: once the scope has returned to traverse_dom no
\* task is queued or running, and every node has completed its preorder and
\* its postorder step.
C3_JoinBeforeReturn ==
    Joined =>
        /\ \A w \in Workers : stack[w] = <<>> /\ queue[w] = <<>>
        /\ pending = 0
        /\ \A n \in Nodes : preDone[n] >= 1 /\ postCalls[n] >= 1

C3_Witness ==
    /\ driver = "joined"
    /\ tree = StarTree
    /\ pool > 1
    /\ via[tree.n] = "spawn"

\* C4. Termination: under fair scheduling of the threads, for every tree and
\* every pool size, traverse_dom eventually returns.
C4_Terminates == <>(driver = "returned")

C4_Witness ==
    /\ driver = "returned"
    /\ tree = StarTree
    /\ pool = 1

\* C5. Postorder count: the postorder step of a node runs at most once, only
\* after the node's own preorder step, with exactly the number of children
\* the preorder step enumerated for it; after the join it has run for every
\* node.
C5_PostorderCount ==
    /\ \A n \in Nodes :
          /\ postCalls[n] <= 1
          /\ postCalls[n] = 1 => preDone[n] = 1 /\ postArg[n] = Len(tree.kids[n])
    /\ Joined => \A n \in Nodes : postCalls[n] = 1

\* The second node of a work unit has run its postorder step while the
\* scratch buffer also held the children of the first.
C5_Witness ==
    /\ tree = CousinTree
    /\ postCalls[3] = 1
    /\ \E w \in Workers :
          /\ stack[w] # <<>>
          /\ Len(Top(w).discovered_child_nodes) > Len(tree.kids[3])

\* C6. Work-unit capacity: every work unit, running or queued, holds at most
\* WORK_UNIT_MAX nodes, and the assertion on nodes.len() has not failed.
C6_WorkUnitCapacity ==
    /\ "len_le_max" \notin asserts
    /\ \A w \in Workers :
          /\ \A i \in 1..Len(stack[w]) : Len(stack[w][i].nodes) <= WORK_UNIT_MAX
          /\ \A i \in 1..Len(queue[w]) : Len(queue[w][i].nodes) <= WORK_UNIT_MAX
    /\ \A n \in Nodes : Len(unit[n]) <= WORK_UNIT_MAX

\* More than WORK_UNIT_MAX children have been dispatched at once and a full
\* work unit of them is running.
C6_Witness ==
    /\ tree = StarTree
    /\ \E w \in Workers :
          /\ stack[w] # <<>>
          /\ Len(Top(w).nodes) = WORK_UNIT_MAX
          /\ Top(w).pc = "loop"

\* C7. Recursion-depth ceiling: the recursion_depth of every activation is at
\* most RECURSION_DEPTH_LIMIT, the assertion on it has not failed, and no
\* stack holds more than RECURSION_DEPTH_LIMIT activations entered by tail
\* dispatch.
C7_RecursionCeiling ==
    /\ "depth_le_limit" \notin asserts
    /\ \A w \in Workers :
          /\ \A i \in 1..Len(stack[w]) :
                stack[w][i].recursion_depth <= RECURSION_DEPTH_LIMIT
          /\ Cardinality({i \in 1..Len(stack[w]) : stack[w][i].tail})
                <= RECURSION_DEPTH_LIMIT

\* A spawned task has nested RECURSION_DEPTH_LIMIT tail dispatches on top of
\* its own activation, and the next level was spawned again.
C7_Witness ==
    /\ tree = DeepTree
    /\ \E w \in Workers :
          /\ Len(stack[w]) = RECURSION_DEPTH_LIMIT + 1
          /\ ~stack[w][1].tail
          /\ Top(w).recursion_depth = RECURSION_DEPTH_LIMIT
          /\ Top(w).pc = "ret"
          /\ queue[w] # <<>>

\* The threads that are using slot s of the thread-local storage: a worker
\* while an activation on its stack holds the borrow, the driver while it
\* aggregates the statistics.
SlotUsers(s) ==
    {w \in Workers : SlotOf(w) = s /\ \E i \in 1..Len(stack[w]) : stack[w][i].tlc}
    \cup (IF driver = "reading" THEN {0} ELSE {})

\* C8. Thread-local exclusivity: no slot is in use by two threads at once, a
\* worker uses no slot but its own, and the driver reads the slots only when
\* no worker is using one.
C8_SlotExclusive ==
    /\ \A s \in Workers : Cardinality(SlotUsers(s)) <= 1
    /\ \A s \in Workers : SlotUsers(s) \subseteq {s, 0}
    /\ driver = "reading" => Joined /\ pending = 0

C8_Witness ==
    /\ driver = "reading"
    /\ pool > 1
    /\ \A w \in Workers : slots[w]

\* C9. Sibling colocation: the children of a node with at most WORK_UNIT_MAX
\* children, once dispatched, are all in the same work unit.
C9_SiblingColocation ==
    \A p \in Nodes :
        LET kids == tree.kids[p]
        IN (/\ Len(kids) >= 1
            /\ Len(kids) <= WORK_UNIT_MAX
            /\ \A i \in 1..Len(kids) : unit[kids[i]] # <<>>)
           => \A i \in 1..Len(kids) : unit[kids[i]] = unit[kids[1]]

\* C10 as stated: a child is handed to the dispatcher only when every node of
\* its parent's work unit has completed its preorder and postorder steps.
C10_WholeUnitBeforeDispatch ==
    \A c \in Nodes \ {1} :
        unit[c] # <<>> =>
            \A i \in 1..Len(unit[tree.parent[c]]) :
                /\ preDone[unit[tree.parent[c]][i]] >= 1
                /\ postCalls[unit[tree.parent[c]][i]] >= 1

\* C10 as amended: the nodes of a work unit are processed in list order, and a
\* child is handed to the dispatcher only when its parent and every node
\* before the parent in the parent's work unit have completed their preorder
\* and postorder steps.
C10_PrefixBeforeDispatch ==
    /\ \A n \in Nodes :
          (unit[n] # <<>> /\ preStart[n] > 0) =>
              \A i \in 1..(PosIn(unit[n], n) - 1) : postCalls[unit[n][i]] >= 1
    /\ \A c \in Nodes \ {1} :
          unit[c] # <<>> =>
              LET u == unit[tree.parent[c]]
              IN \A i \in 1..PosIn(u, tree.parent[c]) :
                    preDone[u[i]] >= 1 /\ postCalls[u[i]] >= 1

\* Children flushed in the middle of the loop are dispatched while a later
\* node of their parent's work unit has not been processed.
C10_Witness ==
    /\ tree = FlushTree
    /\ unit[4] # <<>>
    /\ postCalls[2] = 1
    /\ preStart[3] = 0

\* C11. Root with 20 leaf children: the 20 children are dispatched as two
\* spawned work units, the first 16 and the last 4 in discovery order, none
\* of them tail-called, and after the join the 21 nodes have each had one
\* preorder and one postorder step.
C11_TwentyChildren ==
    tree = ScenarioTree =>
        /\ \A n \in 2..17 : unit[n] # <<>> => unit[n] = Run(2, 16) /\ via[n] = "spawn"
        /\ \A n \in 18..21 : unit[n] # <<>> => unit[n] = Run(18, 4) /\ via[n] = "spawn"
        /\ \A n \in 2..21 : (unit[n] # <<>>) <=> (unit[2] # <<>>)
        /\ \A w \in Workers : Len(stack[w]) <= 1
        /\ Joined => /\ Cardinality({n \in Nodes : preDone[n] = 1}) = 21
                     /\ Cardinality({n \in Nodes : postCalls[n] = 1}) = 21
                     /\ \A n \in Nodes : preStart[n] = 1

C11_Witness ==
    /\ tree = ScenarioTree
    /\ pool = 1
    /\ driver = "returned"
    /\ via[2] = "spawn"
    /\ via[21] = "spawn"

\* C12. Single root without children: no task is ever spawned, the root work
\* unit is run by tail dispatch, and after the join there has been one
\* preorder step, and one postorder step with count 0.
C12_SingleRoot ==
    tree = SingleTree =>
        /\ \A w \in Workers : queue[w] = <<>> /\ Len(stack[w]) <= 1
        /\ pending <= 1
        /\ via[1] \in {"none", "tail"}
        /\ preStart[1] <= 1 /\ postCalls[1] <= 1
        /\ Joined => /\ via[1] = "tail"
                     /\ preDone[1] = 1
                     /\ postCalls[1] = 1
                     /\ postArg[1] = 0

C12_Witness ==
    /\ tree = SingleTree
    /\ driver = "returned"
    /\ postCalls[1] = 1

\* ------------------------------------------------------------------ dispatch steps
\* The step of worker w is its end-of-loop dispatch of a non-empty buffer.
TailStep(w) ==
    /\ At(w, {"tail"})
    /\ Top(w).discovered_child_nodes # <<>>
    /\ stack'[w] # stack[w]

\* The step of worker w is its mid-loop dispatch.
FlushStep(w) ==
    /\ At(w, {"loop"})
    /\ FlushNeeded(Top(w))
    /\ stack'[w] # stack[w]

\* The step of worker w starts a spawned task.
StartStep(w) == stack[w] = <<>> /\ stack'[w] # <<>> /\ driver' = driver

\* The step ran the level processor for nodes on the stack of w, one
\* recursion level deeper.
RanOnStack(w, nodes, dom_depth) ==
    /\ Len(stack'[w]) = Len(stack[w]) + 1
    /\ stack'[w][Len(stack'[w])] =
          Frame(nodes, Top(w).recursion_depth + 1, dom_depth, TRUE)
    /\ queue'[w] = queue[w]

\* The i-th chunk of WORK_UNIT_MAX consecutive nodes.
ChunkAt(nodes, i) ==
    SubSeq(nodes, WORK_UNIT_MAX * (i - 1) + 1, Min(WORK_UNIT_MAX * i, Len(nodes)))

NumChunks(nodes) == (Len(nodes) + WORK_UNIT_MAX - 1) \div WORK_UNIT_MAX

\* The step spawned nodes from worker w, chunk by chunk and in order, and
\* ran nothing on its stack.
SpawnedInChunks(w, nodes, dom_depth) ==
    /\ Len(stack'[w]) = Len(stack[w])
    /\ Len(queue'[w]) = Len(queue[w]) + NumChunks(nodes)
    /\ SubSeq(queue'[w], 1, Len(queue[w])) = queue[w]
    /\ \A i \in 1..NumChunks(nodes) :
          queue'[w][Len(queue[w]) + i] = Task(ChunkAt(nodes, i), dom_depth)

\* C13. Tail-eligibility: a dispatch of at most WORK_UNIT_MAX nodes runs on
\* the current stack, one recursion level deeper, exactly when its mode is
\* TailCall, recursion_depth is not the limit and the worker's deque is
\* empty; otherwise it spawns one task, which starts at recursion_depth 0.
\* The NotTailCall dispatch always spawns.
C13_TailEligibility ==
    [][\A w \in Workers :
        /\ (TailStep(w) /\ Len(Top(w).discovered_child_nodes) <= WORK_UNIT_MAX) =>
              IF Top(w).recursion_depth # RECURSION_DEPTH_LIMIT /\ queue[w] = <<>>
              THEN RanOnStack(w, Top(w).discovered_child_nodes,
                              Top(w).current_dom_depth + 1)
              ELSE /\ NumChunks(Top(w).discovered_child_nodes) = 1
                   /\ SpawnedInChunks(w, Top(w).discovered_child_nodes,
                                      Top(w).current_dom_depth + 1)
        /\ (FlushStep(w) /\ Len(Top(w).discovered_child_nodes) <= WORK_UNIT_MAX) =>
              /\ NumChunks(Top(w).discovered_child_nodes) = 1
              /\ SpawnedInChunks(w, Top(w).discovered_child_nodes,
                                 Top(w).current_dom_depth + 1)
        /\ StartStep(w) =>
              /\ Len(stack'[w]) = 1
              /\ stack'[w][1].recursion_depth = 0
              /\ ~stack'[w][1].tail]_vars

\* Of the two dispatches of one work unit, the NotTailCall one was spawned
\* from a worker with an empty deque, and the TailCall one ran on the stack.
C13_Witness ==
    /\ tree = FlushTree
    /\ pool > 1
    /\ via[4] = "spawn"
    /\ via[tree.n] = "tail"

\* C14. Oversized dispatch: a dispatch of more than WORK_UNIT_MAX nodes, in
\* either mode, runs nothing on the current stack and spawns the nodes in
\* order as consecutive chunks of WORK_UNIT_MAX, the last one holding the
\* rest, each with the per-level data of the dispatch; each task starts at
\* recursion_depth 0.
C14_OversizedDispatch ==
    [][\A w \in Workers :
        /\ ((TailStep(w) \/ FlushStep(w))
               /\ Len(Top(w).discovered_child_nodes) > WORK_UNIT_MAX) =>
              /\ SpawnedInChunks(w, Top(w).discovered_child_nodes,
                                 Top(w).current_dom_depth + 1)
              /\ \A i \in 1..NumChunks(Top(w).discovered_child_nodes) :
                    /\ queue'[w][Len(queue[w]) + i].nodes # <<>>
                    /\ i < NumChunks(Top(w).discovered_child_nodes) =>
                          Len(queue'[w][Len(queue[w]) + i].nodes) = WORK_UNIT_MAX
        /\ StartStep(w) => stack'[w][1].recursion_depth = 0]_vars

\* An oversized list has been dispatched by a TailCall dispatch from a worker
\* with an empty deque, and its last, short chunk is running.
C14_Witness ==
    /\ tree = CousinTree
    /\ via[tree.n] = "spawn"
    /\ \E w \in Workers :
          /\ stack[w] # <<>>
          /\ Top(w).nodes = unit[tree.n]
          /\ Len(Top(w).nodes) < WORK_UNIT_MAX
          /\ Top(w).recursion_depth = 0

\* C15 as stated: the mid-loop dispatch spawns the buffer as a single work
\* unit of exactly WORK_UNIT_MAX nodes one level deeper and clears it, before
\* the preorder step of the node.
C15_FlushOneFullUnit ==
    [][\A w \in Workers :
        FlushStep(w) =>
            /\ Len(Top(w).discovered_child_nodes) = WORK_UNIT_MAX
            /\ queue'[w] = Append(queue[w], Task(Top(w).discovered_child_nodes,
                                                 Top(w).current_dom_depth + 1))
            /\ stack'[w] = SetTop(w, [Top(w) EXCEPT
                                !.discovered_child_nodes = <<>>, !.pc = "pre"])[w]
            /\ preStart' = preStart]_vars

\* C15 as amended: the mid-loop dispatch spawns the whole buffer, of
\* WORK_UNIT_MAX nodes or more, one level deeper in chunks of at most
\* WORK_UNIT_MAX (one work unit when it holds exactly WORK_UNIT_MAX), runs
\* nothing on the stack, clears the buffer and leaves the level's own data
\* unchanged, before the preorder step of the node.
C15_FlushWholeBuffer ==
    [][\A w \in Workers :
        FlushStep(w) =>
            /\ Len(Top(w).discovered_child_nodes) >= WORK_UNIT_MAX
            /\ SpawnedInChunks(w, Top(w).discovered_child_nodes,
                               Top(w).current_dom_depth + 1)
            /\ stack'[w] = SetTop(w, [Top(w) EXCEPT
                                !.discovered_child_nodes = <<>>, !.pc = "pre"])[w]
            /\ preStart[Top(w).nodes[Top(w).idx]] = 0
            /\ preStart' = preStart]_vars

\* A buffer of more than WORK_UNIT_MAX children has been flushed in the
\* middle of the loop, before the next node's preorder step.
C15_Witness ==
    /\ tree = WideFlushTree
    /\ preStart[3] = 0
    /\ unit[4] = Run(4, WORK_UNIT_MAX)
    /\ unit[tree.n] # <<>>
    /\ unit[tree.n] # unit[4]
    /\ \E w \in Workers : At(w, {"pre"}) /\ Top(w).discovered_child_nodes = <<>>

\* C16. Final dispatch on the same thread: an end-of-loop dispatch made below
\* the recursion limit by a worker with an empty deque runs a work unit of
\* the leftover children (all of them, or the first WORK_UNIT_MAX) on the
\* current stack.
C16_FinalOnSameThread ==
    [][\A w \in Workers :
        (/\ TailStep(w)
         /\ Top(w).recursion_depth # RECURSION_DEPTH_LIMIT
         /\ queue[w] = <<>>) =>
            /\ Len(stack'[w]) = Len(stack[w]) + 1
            /\ stack'[w][Len(stack'[w])].nodes =
                  ChunkAt(Top(w).discovered_child_nodes, 1)]_vars

\* C17. Graceful degradation at the ceiling: on a linear chain no assertion
\* fails; the nodes are tail-dispatched on one stack until recursion_depth
\* is RECURSION_DEPTH_LIMIT, the next node is spawned (starting again at 0)
\* and the nodes after it are tail-dispatched again; the chain of ChainLen
\* nodes is spawned once; after the join every node has been processed.
C17_CeilingDegrades ==
    tree \in {ChainTree, DeepTree} =>
        /\ asserts = {}
        /\ \A n \in Nodes :
              via[n] # "none" =>
                  via[n] = IF n % (RECURSION_DEPTH_LIMIT + 1) = 0
                           THEN "spawn" ELSE "tail"
        /\ \A w \in Workers : \A i \in 1..Len(stack[w]) :
              stack[w][i].recursion_depth =
                  stack[w][i].nodes[1] % (RECURSION_DEPTH_LIMIT + 1)
        /\ tree = ChainTree =>
              Cardinality({n \in Nodes : via[n] = "spawn"}) <= 1
        /\ Joined => \A n \in Nodes : preDone[n] = 1 /\ postCalls[n] = 1

C17_Witness ==
    /\ tree = ChainTree
    /\ driver = "returned"
    /\ via[RECURSION_DEPTH_LIMIT] = "tail"
    /\ via[RECURSION_DEPTH_LIMIT + 1] = "spawn"
    /\ via[RECURSION_DEPTH_LIMIT + 2] = "tail"
    /\ postCalls[tree.n] = 1

\* C18. Depth tracking: the current_dom_depth of every activation and of
\* every queued task is the tree depth of each node of its work unit, also
\* for the rest of a work unit after a mid-loop dispatch.
C18_DepthTracking ==
    \A w \in Workers :
        /\ \A i \in 1..Len(stack[w]) :
              \A k \in 1..Len(stack[w][i].nodes) :
                  tree.depth[stack[w][i].nodes[k]] = stack[w][i].current_dom_depth
        /\ \A i \in 1..Len(queue[w]) :
              \A k \in 1..Len(queue[w][i].nodes) :
                  tree.depth[queue[w][i].nodes[k]] = queue[w][i].current_dom_depth

\* After a mid-loop dispatch the second node of the unit is in its preorder
\* step while the flushed children are queued one level deeper.
C18_Witness ==
    /\ tree = FlushTree
    /\ \E w \in Workers :
          /\ At(w, {"inpre"})
          /\ Top(w).idx = 2
          /\ Top(w).current_dom_depth = tree.depth[3]
          /\ queue[w] # <<>>
          /\ queue[w][1].current_dom_depth = tree.depth[3] + 1

\* C19. No re-entrant borrow: on every stack only the innermost activation
\* can hold the borrow of the worker's slot, and an activation holds none
\* before tls.ensure and none from the end-of-loop dispatch on.
C19_NoReentrantBorrow ==
    \A w \in Workers :
        /\ Cardinality({i \in 1..Len(stack[w]) : stack[w][i].tlc}) <= 1
        /\ \A i \in 1..Len(stack[w]) :
              /\ stack[w][i].tlc => i = Len(stack[w])
              /\ stack[w][i].pc \in {"enter", "tail", "ret"} => ~stack[w][i].tlc

\* A nested activation holds the borrow while the enclosing ones, which
\* tail-dispatched it, do not; and a mid-loop dispatch was made under the
\* borrow.
C19_Witness ==
    /\ tree = FlushTree
    /\ unit[4] # <<>>
    /\ \E w \in Workers :
          /\ Len(stack[w]) = 2
          /\ Top(w).tlc
          /\ Top(w).idx = 2
          /\ ~stack[w][1].tlc

\* C20. Non-empty dispatch: the assertion !nodes.is_empty() has not failed
\* and no activation or queued task has an empty work unit.
C20_NonEmptyDispatch ==
    /\ "nonempty" \notin asserts
    /\ \A w \in Workers :
          /\ \A i \in 1..Len(stack[w]) : stack[w][i].nodes # <<>>
          /\ \A i \in 1..Len(queue[w]) : queue[w][i].nodes # <<>>

\* The one-node last chunk of an oversized list has been processed and its
\* empty scratch buffer was not dispatched.
C20_Witness ==
    /\ tree = StarTree
    /\ \E w \in Workers :
          /\ At(w, {"ret"})
          /\ Top(w).nodes = <<tree.n>>
          /\ Top(w).discovered_child_nodes = <<>>
          /\ queue[w] = <<>>

====
